---- MODULE Spec2Model ----
(***************************************************************************)
(* Model of src/app.py: a Streamlit script with three pages.  The video    *)
(* and image pages write the upload to a temporary file, call the YOLO     *)
(* detector (an external collaborator that may write a new folder under    *)
(* runs/detect), locate the detector's output by scanning runs/detect for  *)
(* the most recently modified folder, and render the result.               *)
(*                                                                         *)
(* Two specifications:                                                     *)
(*   Spec         the session: uploads, page changes and reruns, each of   *)
(*                which executes the whole script once;                    *)
(*   SpecLocator  the output locator of process_video / process_image run  *)
(*                repeatedly over a fixed output root.                     *)
(*                                                                         *)
(* File names are sequences of ASCII codes, so that glob's suffix match    *)
(* and list.sort()'s string order are computed, not assumed.  glob returns *)
(* its matches "in arbitrary order" (Python documentation), so every glob  *)
(* call is a nondeterministic choice among the orderings of its matches.   *)
(* Python's None is the empty sequence, a present value x is <<x>>.        *)
(***************************************************************************)
EXTENDS Naturals, Sequences, FiniteSets

VARIABLES page, uploader, uploads, processed_data, root, screen, run,
          invocations, status, selected, lastVideo, lastImage

vars == <<page, uploader, uploads, processed_data, root, screen, run,
          invocations, status, selected, lastVideo, lastImage>>

sessionVars == <<page, uploader, uploads, processed_data, screen, run,
                 invocations, status, selected>>

-----------------------------------------------------------------------------
(* Bounds *)

\* uploads made in one session
MaxUploads == 2
\* detector invocations in one session
MaxInvocations == 2
\* .jpg stills available to a folder of SpecLocator
MaxStills == 4

-----------------------------------------------------------------------------
(* Python values *)

None == <<>>
Some(x) == <<x>>
Val(o) == o[1]

Range(s) == { s[i] : i \in 1..Len(s) }

\* every ordering of the finite set S: the possible results of one glob call
RECURSIVE Listings(_)
Listings(S) ==
  IF S = {} THEN { <<>> }
  ELSE UNION { { <<x>> \o s : s \in Listings(S \ {x}) } : x \in S }

-----------------------------------------------------------------------------
(* File names *)

DOT == 46
EXT_MP4 == <<DOT, 109, 112, 52>>
EXT_AVI == <<DOT, 97, 118, 105>>
EXT_JPG == <<DOT, 106, 112, 103>>
EXT_PNG == <<DOT, 112, 110, 103>>

\* "a.mp4", "b.mp4", "a.avi"
VideoNames == { <<97>> \o EXT_MP4, <<98>> \o EXT_MP4, <<97>> \o EXT_AVI }

\* the frame numbers 1, 2, 10, 3, 4, ... as digit strings: "f10" sorts before "f2"
FrameDigits(i) == IF i = 3 THEN <<49, 48>> ELSE IF i < 3 THEN <<48 + i>> ELSE <<48 + i - 1>>

\* "f1.jpg", "f2.jpg", "f10.jpg", "f3.jpg", ...
JpgNames == { <<102>> \o FrameDigits(i) \o EXT_JPG : i \in 1..MaxStills }

\* "f1.png"
PngNames == { <<102, 49>> \o EXT_PNG }

LocatorNames == VideoNames \cup JpgNames \cup PngNames

\* "a.mp4", "a.avi" and "f1.jpg", "f1.png": what a session's detector run may write
SessionVideos == { <<97>> \o EXT_MP4, <<97>> \o EXT_AVI }
SessionStills == { <<102, 49>> \o EXT_JPG, <<102, 49>> \o EXT_PNG }

\* str.__lt__: lexicographic order on code points, a proper prefix first
RECURSIVE StrLess(_, _)
StrLess(a, b) ==
  IF b = <<>> THEN FALSE
  ELSE IF a = <<>> THEN TRUE
  ELSE IF Head(a) # Head(b) THEN Head(a) < Head(b)
  ELSE StrLess(Tail(a), Tail(b))

EndsWith(name, ext) ==
  /\ Len(name) >= Len(ext)
  /\ SubSeq(name, Len(name) - Len(ext) + 1, Len(name)) = ext

\* glob's "*.ext" inside one folder: the suffix matches and the file is not hidden
Matches(files, ext) == { n \in files : EndsWith(n, ext) /\ Head(n) # DOT }

\* os.path.join(folder, name); all paths compared by sort() share the folder
Path(d, name) == [dir |-> d, name |-> name]
PathLess(p, q) == IF p.dir # q.dir THEN p.dir < q.dir ELSE StrLess(p.name, q.name)

Paths(d, names) == [ i \in 1..Len(names) |-> Path(d, names[i]) ]

\* list.sort() on paths
RECURSIVE Insert(_, _)
Insert(p, s) ==
  IF s = <<>> THEN <<p>>
  ELSE IF PathLess(p, Head(s)) THEN <<p>> \o s
  ELSE <<Head(s)>> \o Insert(p, Tail(s))

RECURSIVE Sort(_)
Sort(s) == IF s = <<>> THEN <<>> ELSE Insert(Head(s), Sort(Tail(s)))

\* s[:n]
Take(s, n) == SubSeq(s, 1, IF Len(s) < n THEN Len(s) ELSE n)

SampleCount == 3

-----------------------------------------------------------------------------
(* The output root runs/detect: folder i is root[i] = [mtime, files, by],   *)
(* by = the upload whose detector run wrote it (0: none of this session).  *)

Folder(mtime, files, by) == [mtime |-> mtime, files |-> files, by |-> by]

\* max(output_folders, key=os.path.getmtime): the first maximal element
LatestFolder(fs, folders) ==
  LET best == CHOOSE i \in 1..Len(folders) :
                /\ \A j \in 1..Len(folders) : fs[folders[j]].mtime <= fs[folders[i]].mtime
                /\ \A j \in 1..(i - 1) : fs[folders[j]].mtime < fs[folders[i]].mtime
  IN folders[best]

\* The results of the glob calls of one locator run: the listing of the
\* output root, and for the folder it makes the latest one listing per pattern.
GlobResults(fs) ==
  IF fs = <<>>
    THEN { [folders |-> <<>>, mp4 |-> <<>>, avi |-> <<>>, jpg |-> <<>>, png |-> <<>>] }
    ELSE UNION {
           LET files == fs[LatestFolder(fs, folders)].files IN
           { [folders |-> folders, mp4 |-> a, avi |-> b, jpg |-> c, png |-> d] :
               a \in Listings(Matches(files, EXT_MP4)),
               b \in Listings(Matches(files, EXT_AVI)),
               c \in Listings(Matches(files, EXT_JPG)),
               d \in Listings(Matches(files, EXT_PNG)) }
           : folders \in Listings(DOMAIN fs) }

\* process_video without line 34's image_files.sort()
process_video_unsorted(fs, g) ==
  IF g.folders = <<>> THEN None
  ELSE
    LET latest_folder == LatestFolder(fs, g.folders)
        video_files == IF g.mp4 # <<>> THEN g.mp4 ELSE g.avi
        image_files == IF g.jpg # <<>> THEN g.jpg ELSE g.png
        sample_images == Take(Paths(latest_folder, image_files), SampleCount)
    IN IF video_files = <<>> THEN None
       ELSE Some([video |-> Path(latest_folder, video_files[1]),
                  images |-> sample_images])

\* process_video returning None when it finds no still either
process_video_needs_images(fs, g) ==
  IF g.folders = <<>> THEN None
  ELSE
    LET latest_folder == LatestFolder(fs, g.folders)
        video_files == IF g.mp4 # <<>> THEN g.mp4 ELSE g.avi
        image_files == IF g.jpg # <<>> THEN g.jpg ELSE g.png
        sample_images == Take(Sort(Paths(latest_folder, image_files)), SampleCount)
    IN IF video_files = <<>> \/ image_files = <<>> THEN None
       ELSE Some([video |-> Path(latest_folder, video_files[1]),
                  images |-> sample_images])

\* process_video whose second fallback at line 26 globs "*.jpg"
process_video_any_file(fs, g) ==
  IF g.folders = <<>> THEN None
  ELSE
    LET latest_folder == LatestFolder(fs, g.folders)
        video_files == IF g.mp4 # <<>> THEN g.mp4 ELSE IF g.avi # <<>> THEN g.avi ELSE g.jpg
        image_files == IF g.jpg # <<>> THEN g.jpg ELSE g.png
        sample_images == Take(Sort(Paths(latest_folder, image_files)), SampleCount)
    IN IF video_files = <<>> THEN None
       ELSE Some([video |-> Path(latest_folder, video_files[1]),
                  images |-> sample_images])

\* lines 19-37 of process_video, given what its glob calls returned
process_video(fs, g) ==
  IF g.folders = <<>> THEN None
  ELSE
    LET latest_folder == LatestFolder(fs, g.folders)
        video_files == IF g.mp4 # <<>> THEN g.mp4 ELSE g.avi
        image_files == IF g.jpg # <<>> THEN g.jpg ELSE g.png
        sample_images == Take(Sort(Paths(latest_folder, image_files)), SampleCount)
    IN IF video_files = <<>> THEN None
       ELSE Some([video |-> Path(latest_folder, video_files[1]),
                  images |-> sample_images])

\* lines 53-63 of process_image: the located image, or None
locate_image(fs, g) ==
  IF g.folders = <<>> THEN None
  ELSE
    LET latest_folder == LatestFolder(fs, g.folders)
        image_files == IF g.jpg # <<>> THEN g.jpg ELSE g.png
    IN IF image_files = <<>> THEN None
       ELSE Some(Path(latest_folder, image_files[1]))

-----------------------------------------------------------------------------
(* The detector: model.predict(source, show=False, save=True) *)

\* class names the detector may report
Labels == { "mask", "helmet" }

Boxes(cls) == [cls |-> cls]
Result(boxes) == [boxes |-> boxes]

\* what predict returns: no result, a result without boxes, boxes without
\* classes, or the set of class names of the first result's boxes
DetectorResults ==
  { <<>>, <<Result(None)>>, <<Result(Some(Boxes(None)))>> }
  \cup { <<Result(Some(Boxes(Some(L))))>> : L \in SUBSET Labels }

\* the label set of the first result, when there is one
LabelsOf(results) ==
  IF results # <<>> /\ results[1].boxes # None /\ Val(results[1].boxes).cls # None
    THEN Val(results[1].boxes).cls
    ELSE None

\* the folder a session's detector run writes holds at most one annotated
\* video and at most one still
DetectorOutputs ==
  { V \cup I : V \in { W \in SUBSET SessionVideos : Cardinality(W) <= 1 },
               I \in { J \in SUBSET SessionStills : Cardinality(J) <= 1 } }

RECURSIVE NewestMtime(_)
NewestMtime(fs) ==
  IF fs = <<>> THEN 0
  ELSE LET m == NewestMtime(Tail(fs)) IN IF Head(fs).mtime > m THEN Head(fs).mtime ELSE m

\* The side effect of predict for upload u on the output root: a new folder,
\* newer than every folder there, or nothing under runs/detect at all (the
\* case lines 20 and 54 provide for).
predict(fs, u) ==
  { fs } \cup { Append(fs, Folder(NewestMtime(fs) + 1, F, u)) : F \in DetectorOutputs }

\* lines 66-75 of process_image
detection_info(results) ==
  LET detected(l) ==
        /\ results # <<>>
        /\ results[1].boxes # None
        /\ Val(results[1].boxes).cls # None
        /\ l \in Val(Val(results[1].boxes).cls)
  IN [ k \in {"mask", "helmet"} |-> detected(k) ]

\* process_image returning a bare None, as process_video does, at lines 55 and 62
process_image_bare_none(fs, g, results) ==
  LET processed_image_path == locate_image(fs, g)
  IN IF processed_image_path = None THEN None
     ELSE <<processed_image_path, Some(detection_info(results))>>

\* lines 53-77 of process_image: the pair it returns
process_image(fs, g, results) ==
  LET processed_image_path == locate_image(fs, g)
  IN IF processed_image_path = None THEN <<None, None>>
     ELSE <<processed_image_path, Some(detection_info(results))>>

-----------------------------------------------------------------------------
(* What a script run puts on the page: a sequence of elements *)

El(kind, text, path) == [kind |-> kind, text |-> text, path |-> path]

\* sep.join(list), as the sequence of its pieces
RECURSIVE Join(_, _)
Join(sep, list) ==
  IF list = <<>> THEN <<>>
  ELSE IF Len(list) = 1 THEN list
  ELSE <<Head(list), sep>> \o Join(sep, Tail(list))

Shows(scr, kind, text) == \E i \in 1..Len(scr) : scr[i].kind = kind /\ scr[i].text = text
ShowsKind(scr, kind) == \E i \in 1..Len(scr) : scr[i].kind = kind
PathsShown(scr, kind) ==
  { Val(scr[i].path) : i \in { j \in 1..Len(scr) : scr[j].kind = kind /\ scr[j].path # None } }

VideoPage == "Detection (Video)"
ImagePage == "Image Detection"
BlogPage == "Safety Measures Blog"
Pages == { VideoPage, ImagePage, BlogPage }

MsgVideoOk == <<"Video processed successfully!">>
MsgNoImages == <<"No processed images found to display.">>
MsgVideoError == <<"Error: Could not locate the processed video. Please try again.">>
MsgAllPPE == <<"All required PPE detected!">>
MsgImageError == <<"Error: Could not process the image. Please try again.">>
MsgMissing(missing) == <<"Warning: No ">> \o Join(" and ", missing) \o <<" detected!">>

\* lines 108-135: the video page's rendering of session_state.processed_data
RenderVideo(pd) ==
  IF pd # None
    THEN <<El("success", MsgVideoOk, None),
           El("download_button", <<"processed_video.mp4">>, Some(Val(pd).video))>>
         \o (IF Val(pd).images # <<>>
               THEN <<El("subheader", <<"Sample Processed Images">>, None)>>
                    \o [ i \in 1..Len(Val(pd).images) |->
                           El("image", <<>>, Some(Val(pd).images[i])) ]
               ELSE <<El("warning", MsgNoImages, None)>>)
         \o <<El("subheader", <<"Recommendations">>, None)>>
    ELSE <<El("error", MsgVideoError, None)>>

\* lines 155-173: the image page unpacks process_image's return value and
\* renders it.  A subscript with a key the dict lacks raises KeyError, which
\* ends the script run after the elements rendered so far.
RenderImage(ret) ==
  IF Len(ret) # 2 THEN <<El("exception", <<"TypeError">>, None)>>
  ELSE
    LET processed_img == ret[1]
        detection_info_ == ret[2]
    IN IF processed_img # None
         THEN
           LET info == Val(detection_info_)
               shown == <<El("markdown", <<"Detected Results:">>, None),
                          El("image", <<>>, processed_img)>>
               missing == (IF ~info["mask"] THEN <<"mask">> ELSE <<>>)
                          \o (IF ~info["Hardhat"] THEN <<"Hardhat">> ELSE <<>>)
           IN IF "mask" \notin DOMAIN info \/ "Hardhat" \notin DOMAIN info
                THEN shown \o <<El("exception", <<"KeyError">>, None)>>
                ELSE shown \o (IF missing # <<>>
                                 THEN <<El("error", MsgMissing(missing), None)>>
                                 ELSE <<El("success", MsgAllPPE, None)>>)
         ELSE <<El("error", MsgImageError, None)>>

-----------------------------------------------------------------------------
(* One execution of the script, for the page p and the upload u (0: none)   *)
(* the widgets hold.  run records what the execution did: the upload, if    *)
(* the detector was invoked and if it wrote a folder, the first result's    *)
(* label set, and if the locator found an output.  selected lists the       *)
(* folders the session's locator runs took for the latest, in order.        *)

RECURSIVE Total(_, _)
Total(f, n) == IF n = 0 THEN 0 ELSE f[n] + Total(f, n - 1)

Ran(u, invoked, wrote, labels, found) ==
  Some([upload |-> u, invoked |-> invoked, wrote |-> wrote, labels |-> labels,
        found |-> found])

Outcome(scr) ==
  IF ShowsKind(scr, "exception") THEN "Crashed"
  ELSE IF ShowsKind(scr, "error") /\ ~ShowsKind(scr, "image") THEN "Failed"
  ELSE "Ready"

Select(fs, g) ==
  IF g.folders = <<>> THEN selected ELSE Append(selected, LatestFolder(fs, g.folders))

\* lines 87-135
VideoScript(u) ==
  LET top == <<El("title", <<"PPE Detection on Construction Sites - Video">>, None)>>
      original == <<El("video", <<"tfile">>, None)>>
  IN
  IF u = 0
    THEN /\ screen' = top
         /\ run' = None
         /\ UNCHANGED <<processed_data, root, invocations, status, selected>>
  ELSE IF processed_data # None
    THEN /\ screen' = top \o original \o RenderVideo(processed_data)
         /\ run' = Ran(u, FALSE, FALSE, None, FALSE)
         /\ status' = [status EXCEPT ![u] = Outcome(screen')]
         /\ UNCHANGED <<processed_data, root, invocations, selected>>
  ELSE /\ Total(invocations, MaxUploads) < MaxInvocations
       /\ \E fs \in predict(root, u) :
            /\ root' = fs
            /\ \E g \in GlobResults(fs) :
                 /\ processed_data' = process_video(fs, g)
                 /\ selected' = Select(fs, g)
                 /\ run' = Ran(u, TRUE, fs # root, None, processed_data' # None)
       /\ screen' = top \o original \o RenderVideo(processed_data')
       /\ invocations' = [invocations EXCEPT ![u] = @ + 1]
       /\ status' = [status EXCEPT ![u] = Outcome(screen')]

\* lines 140-173
ImageScript(u) ==
  LET top == <<El("title", <<"PPE Detection System - Image">>, None)>>
      original == <<El("image", <<"img_temp">>, None)>>
  IN
  IF u = 0
    THEN /\ screen' = top
         /\ run' = None
         /\ UNCHANGED <<processed_data, root, invocations, status, selected>>
  ELSE /\ Total(invocations, MaxUploads) < MaxInvocations
       /\ \E fs \in predict(root, u), results \in DetectorResults :
            /\ root' = fs
            /\ \E g \in GlobResults(fs) :
                 LET ret == process_image(fs, g, results) IN
                 /\ screen' = top \o original \o RenderImage(ret)
                 /\ selected' = Select(fs, g)
                 /\ run' = Ran(u, TRUE, fs # root, LabelsOf(results),
                               Len(ret) = 2 /\ ret[1] # None)
       /\ invocations' = [invocations EXCEPT ![u] = @ + 1]
       /\ status' = [status EXCEPT ![u] = Outcome(screen')]
       /\ UNCHANGED processed_data

\* lines 178-201
BlogScript ==
  /\ screen' = <<El("title", <<"Safety Measures Blog">>, None)>>
  /\ run' = None
  /\ UNCHANGED <<processed_data, root, invocations, status, selected>>

\* lines 82-201: the page dispatch
Script(p, u) ==
  IF p = VideoPage THEN VideoScript(u)
  ELSE IF p = ImagePage THEN ImageScript(u)
  ELSE BlogScript

-----------------------------------------------------------------------------
(* Spec: the session.  Every widget interaction reruns the whole script.    *)

\* the user puts a new file into the page's file_uploader
Upload ==
  /\ page \in { VideoPage, ImagePage }
  /\ uploads < MaxUploads
  /\ uploads' = uploads + 1
  /\ uploader' = uploads + 1
  /\ Script(page, uploads + 1)
  /\ UNCHANGED <<page, lastVideo, lastImage>>

\* the user removes the file from the file_uploader
ClearUpload ==
  /\ uploader # 0
  /\ uploader' = 0
  /\ Script(page, 0)
  /\ UNCHANGED <<page, uploads, lastVideo, lastImage>>

\* the sidebar radio: the other page's file_uploader starts empty
SelectPage ==
  \E p \in Pages \ { page } :
    /\ page' = p
    /\ uploader' = 0
    /\ Script(p, 0)
    /\ UNCHANGED <<uploads, lastVideo, lastImage>>

\* a rerun with the widgets unchanged: the download button, or "Rerun"
Rerun ==
  /\ Script(page, uploader)
  /\ UNCHANGED <<page, uploader, uploads, lastVideo, lastImage>>

-----------------------------------------------------------------------------
(* SpecLocator: the output locator over a fixed output root.  The root     *)
(* holds one folder with any content over LocatorNames and, optionally, a  *)
(* second folder left by another run, older or of equal modification time. *)

TieNames == { <<97>> \o EXT_MP4, <<98>> \o EXT_MP4, <<102, 49>> \o EXT_JPG }

LocatorRoots ==
  { <<Folder(2, F, 0)>> : F \in SUBSET LocatorNames }
  \cup { <<Folder(m, G, 0), Folder(2, F, 0)>> :
           m \in {1, 2}, G \in SUBSET TieNames, F \in SUBSET LocatorNames }

\* one run of the locator of process_video (lines 19-37), no detector run before it
LocateVideo ==
  /\ \E g \in GlobResults(root) : lastVideo' = Some(process_video(root, g))
  /\ UNCHANGED <<root, lastImage, sessionVars>>

\* one run of the locator of process_image (lines 53-63), no detector run before it
LocateImage ==
  /\ \E g \in GlobResults(root) : lastImage' = Some(locate_image(root, g))
  /\ UNCHANGED <<root, lastVideo, sessionVars>>

InitSession ==
  /\ page = "Detection (Video)"
  /\ uploader = 0
  /\ uploads = 0
  /\ processed_data = None
  /\ screen = <<>>
  /\ run = None
  /\ invocations = [u \in 1..MaxUploads |-> 0]
  /\ status = [u \in 1..MaxUploads |-> "Idle"]
  /\ selected = <<>>

InitLocator ==
  /\ InitSession
  /\ root \in LocatorRoots
  /\ lastVideo = None
  /\ lastImage = None

NextLocator == LocateVideo \/ LocateImage

SpecLocator == InitLocator /\ [][NextLocator]_vars

-----------------------------------------------------------------------------

Init ==
  /\ InitSession
  /\ root = <<>>
  /\ lastVideo = None
  /\ lastImage = None

Next == Upload \/ ClearUpload \/ SelectPage \/ Rerun

Spec == Init /\ [][Next]_vars

-----------------------------------------------------------------------------
(* Properties of the session (Spec) *)

Invoked == run # None /\ Val(run).invoked
Crashed == ShowsKind(screen, "exception")

IsVideo(name) == Matches({name}, EXT_MP4) # {} \/ Matches({name}, EXT_AVI) # {}
IsStill(name) == Matches({name}, EXT_JPG) # {} \/ Matches({name}, EXT_PNG) # {}

\* the processed outputs on the page: the download and the images other than the upload's
OutputsShown == PathsShown(screen, "download_button") \cup PathsShown(screen, "image")

\* the folder the detector run of this script execution wrote
NewFolder == root[Len(root)]

\* C1: in image mode, once a processed image has been located for a returned
\* label set L, the page shows without fault the verdict listing the
\* categories (mask, then helmet/hardhat) whose label is absent from L, or
\* the success message when none is absent.
C1_ImageVerdict ==
  (page = ImagePage /\ Invoked /\ Val(run).found /\ Val(run).labels # None) =>
    LET L == Val(Val(run).labels)
        missing == (IF "mask" \notin L THEN <<"mask">> ELSE <<>>)
                   \o (IF "helmet" \notin L THEN <<"Hardhat">> ELSE <<>>)
    IN /\ ~Crashed
       /\ IF missing = <<>> THEN Shows(screen, "success", MsgAllPPE)
          ELSE Shows(screen, "error", MsgMissing(missing))

\* C2: when runs/detect has no entries after the detector invocation, the
\* locator returns not found and the page shows its error message, without
\* any fault and without any processed output, in video and in image mode.
C2_EmptyRootNotFound ==
  (Invoked /\ root = <<>>) =>
    /\ ~Val(run).found
    /\ ~Crashed
    /\ OutputsShown = {}
    /\ page = VideoPage => processed_data = None /\ Shows(screen, "error", MsgVideoError)
    /\ page = ImagePage => Shows(screen, "error", MsgImageError)

C2_Witness ==
  /\ page = ImagePage
  /\ Invoked
  /\ root = <<>>
  /\ Shows(screen, "error", MsgImageError)

\* C5: the folders selected by successive locator runs of a session differ:
\* the run after the second invocation never selects the folder the run
\* after the first invocation selected.
C5_MonotonicRecency ==
  \A i \in 1..(Len(selected) - 1) : selected[i + 1] # selected[i]

\* C6: in video mode, when the detector wrote a new folder holding a video
\* and no still, the request ends Ready: process_video's image list is
\* empty, the page shows the success message, the download button for the
\* video of that folder and the "no processed images" warning, and neither
\* the error message nor a fault.
C6_VideoWithoutStills ==
  (/\ page = VideoPage
   /\ Invoked
   /\ Val(run).wrote
   /\ \E n \in NewFolder.files : IsVideo(n)
   /\ ~\E n \in NewFolder.files : IsStill(n)) =>
    /\ processed_data # None
    /\ Val(processed_data).images = <<>>
    /\ Val(processed_data).video.dir = Len(root)
    /\ Shows(screen, "success", MsgVideoOk)
    /\ PathsShown(screen, "download_button") = { Val(processed_data).video }
    /\ Shows(screen, "warning", MsgNoImages)
    /\ ~ShowsKind(screen, "error")
    /\ ~Crashed
    /\ status[uploader] = "Ready"

C6_Witness ==
  /\ page = VideoPage
  /\ Invoked
  /\ Val(run).wrote
  /\ NewFolder.files = { <<97>> \o EXT_AVI }
  /\ Shows(screen, "warning", MsgNoImages)

\* C7: every processed output on the page of the current upload was written
\* by a detector invocation on that upload's own temporary file.
C7_FreshPass ==
  uploader # 0 => \A p \in OutputsShown : root[p.dir].by = uploader

\* C8: the processed video offered for download is an .mp4 or .avi file, the
\* processed image displayed on the image page is a .jpg or .png file, and
\* when the newest folder holds no file of the upload's kind the locator
\* finds nothing and the page shows the error message and no output.
C8_MediaKind ==
  /\ \A p \in PathsShown(screen, "download_button") : page = VideoPage /\ IsVideo(p.name)
  /\ processed_data # None => IsVideo(Val(processed_data).video.name)
  /\ page = ImagePage => \A p \in PathsShown(screen, "image") : IsStill(p.name)
  /\ (/\ Invoked
      /\ root # <<>>
      /\ \/ page = VideoPage /\ ~\E n \in NewFolder.files : IsVideo(n)
         \/ page = ImagePage /\ ~\E n \in NewFolder.files : IsStill(n)) =>
       /\ ~Val(run).found
       /\ ShowsKind(screen, "error")
       /\ OutputsShown = {}

C8_Witness ==
  /\ page = VideoPage
  /\ Invoked
  /\ Val(run).wrote
  /\ NewFolder.files = { <<102, 49>> \o EXT_JPG }
  /\ Shows(screen, "error", MsgVideoError)

\* C10: once a request is Ready or Failed the detector is never invoked
\* again for that upload, also when the page is rendered again with the
\* same file in the uploader.
C10_NoRetry ==
  [][\A u \in 1..MaxUploads :
       status[u] \in { "Ready", "Failed" } => invocations'[u] = invocations[u]]_vars

-----------------------------------------------------------------------------
(* Properties of the output locator (SpecLocator) *)

Stills(files) ==
  IF Matches(files, EXT_JPG) # {} THEN Matches(files, EXT_JPG) ELSE Matches(files, EXT_PNG)

Videos(files) ==
  IF Matches(files, EXT_MP4) # {} THEN Matches(files, EXT_MP4) ELSE Matches(files, EXT_AVI)

VideoFound == lastVideo # None /\ Val(lastVideo) # None

\* C3: when a video is found, the sample list holds min(3, n) paths of the
\* n stills of the chosen extension in the selected folder, in increasing
\* name order, and every still left out sorts after every still in it.
C3_SampleFrames ==
  VideoFound =>
    LET ret == Val(Val(lastVideo))
        stills == Stills(root[ret.video.dir].files)
        n == Cardinality(stills)
        images == ret.images
    IN /\ Len(images) = (IF n < SampleCount THEN n ELSE SampleCount)
       /\ \A i \in 1..Len(images) :
            images[i].dir = ret.video.dir /\ images[i].name \in stills
       /\ \A i \in 1..(Len(images) - 1) : StrLess(images[i].name, images[i + 1].name)
       /\ \A x \in stills :
            (\A i \in 1..Len(images) : images[i].name # x) =>
              \A i \in 1..Len(images) : StrLess(images[i].name, x)

C3_Witness ==
  /\ VideoFound
  /\ Cardinality(Stills(root[Val(Val(lastVideo)).video.dir].files)) > SampleCount
  /\ Len(Val(Val(lastVideo)).images) = SampleCount

\* C4: over an unmodified output root, a second run of the locator returns
\* what the first run returned.
C4_Idempotent ==
  [][/\ lastVideo # None => lastVideo' = lastVideo
     /\ lastImage # None => lastImage' = lastImage]_vars

\* C9: the video selected is the smallest .mp4 path of the folder, or the
\* smallest .avi path when the folder holds no .mp4 file.
C9_SortedFirstVideo ==
  VideoFound =>
    LET ret == Val(Val(lastVideo))
    IN \A x \in Videos(root[ret.video.dir].files) :
         x = ret.video.name \/ StrLess(ret.video.name, x)

====
